---- MODULE Spec2Model ----
(***************************************************************************)
(* Model of the Qobuz favorites downloader (src/main.py, src/web_ui.py).   *)
(*                                                                         *)
(* The specifications of this module:                                      *)
(*   Spec           the job controller: the startup thread, the scheduler *)
(*                  loop and the thread spawned by POST /api/trigger,     *)
(*                  each running job() / process_favorites() step by      *)
(*                  step, a batch_download call being one step;           *)
(*   BatchSpec      one call of batch_download(), unit by unit: the chunk *)
(*                  loop of the calling thread and the workers of its     *)
(*                  ThreadPoolExecutor;                                   *)
(*   FairBatchSpec  BatchSpec with every thread scheduled in the end;     *)
(*   FetchSpec      one call of get_user_favorites(), request by request; *)
(*   RunSpec        the run started at start-up, alone, with its          *)
(*                  get_user_favorites calls request by request and its   *)
(*                  batch_download calls unit by unit.                    *)
(***************************************************************************)
EXTENDS Integers, Sequences, FiniteSets, TLC

(* ------------------------------- bounds ------------------------------- *)
\* firings of the periodic timer
MaxPeriodic == 1
\* items handed to one batch_download call
MaxItems == 4
\* largest current_batch_size and max_workers tried
MaxBatchSize == 2
MaxWorkers == 2
\* units whose download never returns
MaxHung == 1
\* non-empty pages and items per page answered to one get_user_favorites call
MaxPages == 3
MaxPageLen == 2
\* favorites the remote catalog holds during one run, all categories together
MaxFav == 2

(* -------------------------- program constants ------------------------- *)
\* BATCH_SIZE default (main.py:57)
DefaultBatchSize == 10
\* MAX_WORKERS_TRACKS, _ALBUMS, _ARTISTS default (main.py:54-56)
DefaultWorkers == 1
\* limit (main.py:102)
Limit == 50

Cats == <<"tracks", "albums", "artists">>
CatSet == {"tracks", "albums", "artists"}

\* threads that may come to execute job(): the thread started at line 272,
\* the scheduler loop itself (schedule.run_pending calls job inline) and the
\* threads started by trigger_job (web_ui.py:57)
TriggerThreads == {"trig1"}
JobThreads == {"startup", "sched"} \cup TriggerThreads

VARIABLES
    job_running,   \* threading.Event job_running (main.py:64)
    app_state,     \* dict app_state (main.py:67-82)
    pc,            \* per thread: the line it is about to execute
    favs,          \* per thread: len(favorite_<cat>) of its run
    cat,           \* per thread: index in Cats of the category being processed
    calls,         \* per thread: collaborators invoked by its current job() call
    result,        \* per thread: how its last job() call ended
    resp,          \* per trigger request: the HTTP status answered
    fired,         \* periodic timer firings so far
    clock,         \* reads of time.time() so far
    exc,           \* per thread: the exception process_favorites is handling
    batch_size,    \* BATCH_SIZE (main.py:57), current_batch_size (main.py:130)
    max_workers,   \* MAX_WORKERS_<CAT> (main.py:54-56), max_workers (main.py:130)
    \* one call of batch_download (main.py:130-168)
    b_pc,          \* where the calling thread is in batch_download
    items,         \* len(items); the items are 1..items, in list order
    b_i,           \* the loop variable i of main.py:145
    b_j,           \* the item whose future the loop at main.py:153 waits for
    unit,          \* per item: the state of its download_item unit
    successful_items,  \* main.py:135
    failed_items,      \* main.py:136
    timed_out,     \* items whose future.result(timeout=600) raised
    chunks,        \* the batches taken at main.py:146, as <<first, last>>
    sleeps,        \* per time.sleep(3) at main.py:166: the chunks taken so far
    events,        \* per item: the collaborator calls of its unit that ended
    \* one call of get_user_favorites (main.py:91-117)
    f_pc,          \* where the calling thread is in get_user_favorites
    offset,        \* main.py:103
    favorites,     \* main.py:104
    requests,      \* the offsets favorites_get was called with, in order
    pages,         \* what favorites_get answered, in order
    \* one run of process_favorites, call by call
    fetch_log,     \* the get_user_favorites calls that returned, in order
    batch_log      \* the categories batch_download was called for, in order

\* the configuration, read once from the environment
cfg == <<batch_size, max_workers>>

\* the state of the job controller, the scheduler and the web UI
jvars == <<job_running, pc, favs, cat, calls, result, resp, fired, clock, exc>>

\* the state of one batch_download call
bvars == <<b_pc, items, b_i, b_j, unit, successful_items, failed_items,
           timed_out, chunks, sleeps, events>>

\* the state of one get_user_favorites call, and the calls of one run
fvars == <<f_pc, offset, favorites, requests, pages, fetch_log, batch_log>>

vars == <<app_state, cfg, jvars, bvars, fvars>>

ZeroCount == [c \in CatSet |-> 0]

\* the favorites lists the remote catalog answers with while several threads
\* are at work, by their lengths: no favorite at all, or one track
ConcFavs == {ZeroCount, [ZeroCount EXCEPT !["tracks"] = 1]}

\* app_state as constructed at main.py:67-82
InitAppState ==
    [ last_run |-> 0, next_run |-> 0, current_status |-> "idle",
      downloaded |-> ZeroCount, failed |-> ZeroCount, last_error |-> "None",
      current_item |-> "None", favorites_count |-> ZeroCount ]

\* no batch_download call is modelled unit by unit
NoBatch ==
    /\ b_pc = "none"
    /\ items = 0
    /\ b_i = 0
    /\ b_j = 0
    /\ unit = <<>>
    /\ successful_items = <<>>
    /\ failed_items = <<>>
    /\ timed_out = {}
    /\ chunks = <<>>
    /\ sleeps = <<>>
    /\ events = <<>>

\* no get_user_favorites call is modelled page by page
NoFetch ==
    /\ f_pc = "none"
    /\ offset = 0
    /\ favorites = <<>>
    /\ requests = <<>>
    /\ pages = <<>>
    /\ fetch_log = <<>>
    /\ batch_log = <<>>

Init ==
    /\ job_running = FALSE
    /\ app_state = InitAppState
    /\ pc = [t \in JobThreads |->
               IF t = "startup" THEN "job_check"
               ELSE IF t = "sched" THEN "run_pending" ELSE "none"]
    /\ favs = [t \in JobThreads |-> ZeroCount]
    /\ cat = [t \in JobThreads |-> 1]
    /\ calls = [t \in JobThreads |-> {}]
    /\ result = [t \in JobThreads |-> "none"]
    /\ resp = [k \in TriggerThreads |-> 0]
    /\ fired = 0
    /\ clock = 0
    /\ exc = [t \in JobThreads |-> "None"]
    /\ batch_size \in {0, DefaultBatchSize}
    /\ max_workers = DefaultWorkers
    /\ NoBatch
    /\ NoFetch

\* where job() returns to: the scheduler thread goes on with its loop
\* (main.py:281), a spawned thread ends
AfterJob(t) == IF t = "sched" THEN "tick" ELSE "done"

(* ------------------------------- job() -------------------------------- *)
\* the early return, had it been placed inside the try block of job(): the
\* finally clause would clear the flag of the run that holds it
JobBusyReturnClears(t) ==
    /\ pc' = [pc EXCEPT ![t] = AfterJob(t)]
    /\ result' = [result EXCEPT ![t] = "skipped"]
    /\ job_running' = FALSE
    /\ UNCHANGED <<app_state, favs, cat, calls, resp, fired, clock, exc, cfg,
                   bvars, fvars>>

\* main.py:250-252, the early return
JobBusyReturn(t) ==
    /\ pc' = [pc EXCEPT ![t] = AfterJob(t)]
    /\ result' = [result EXCEPT ![t] = "skipped"]
    /\ UNCHANGED <<job_running, app_state, favs, cat, calls, resp, fired,
                   clock, exc, cfg, bvars, fvars>>

\* main.py:250: the test of job_running
JobCheck(t) ==
    /\ pc[t] = "job_check"
    /\ IF job_running
       THEN JobBusyReturn(t)
       ELSE /\ pc' = [pc EXCEPT ![t] = "job_set"]
            /\ UNCHANGED <<job_running, app_state, favs, cat, calls, result,
                           resp, fired, clock, exc, cfg, bvars, fvars>>

\* main.py:255
JobSet(t) ==
    /\ pc[t] = "job_set"
    /\ job_running' = TRUE
    /\ pc' = [pc EXCEPT ![t] = "pf_init"]
    /\ UNCHANGED <<app_state, favs, cat, calls, result, resp, fired, clock,
                   exc, cfg, bvars, fvars>>

(* ------------------------- process_favorites() ------------------------ *)
\* main.py:172
PfInit(t) ==
    /\ pc[t] = "pf_init"
    /\ app_state' = [app_state EXCEPT !.current_status = "initializing"]
    /\ pc' = [pc EXCEPT ![t] = "pf_auth"]
    /\ UNCHANGED <<job_running, favs, cat, calls, result, resp, fired, clock,
                   exc, cfg, bvars, fvars>>

\* main.py:175-183: the authentication calls, which may raise, then the
\* status write that follows them
PfAuth(t) ==
    /\ pc[t] = "pf_auth"
    /\ calls' = [calls EXCEPT ![t] = @ \cup {"authenticate"}]
    /\ \E ok \in BOOLEAN :
         IF ok
         THEN /\ app_state' = [app_state EXCEPT
                                 !.current_status = "fetching favorites"]
              /\ pc' = [pc EXCEPT ![t] = "pf_fetch"]
              /\ exc' = exc
         ELSE /\ exc' = [exc EXCEPT ![t] = "AuthError"]
              /\ pc' = [pc EXCEPT ![t] = "pf_except"]
              /\ app_state' = app_state
    /\ UNCHANGED <<job_running, favs, cat, result, resp, fired, clock, cfg, bvars, fvars>>

\* the three download blocks without their `if favorite_<cat>:` tests
NextCatNoSkip(f, k) == k

\* the next `if favorite_<cat>:` whose list is not empty, from index k on
\* (main.py:198, 211, 224); Len(Cats) + 1 when there is none
RECURSIVE NextCat(_, _)
NextCat(f, k) ==
    IF k > Len(Cats) THEN k
    ELSE IF f[Cats[k]] > 0 THEN k ELSE NextCat(f, k + 1)

\* where process_favorites goes on once category k - 1 is dealt with
PcOfCat(k) == IF k > Len(Cats) THEN "pf_idle" ELSE "pf_status"

\* main.py:185-195: the three get_user_favorites calls (which never raise)
\* and the favorites_count write; F is the set of list lengths the remote
\* catalog may answer with
PfFetch(t, F) ==
    /\ pc[t] = "pf_fetch"
    /\ \E f \in F :
         /\ favs' = [favs EXCEPT ![t] = f]
         /\ app_state' = [app_state EXCEPT !.favorites_count = f]
         /\ cat' = [cat EXCEPT ![t] = NextCat(f, 1)]
         /\ pc' = [pc EXCEPT ![t] = PcOfCat(NextCat(f, 1))]
    /\ calls' = [calls EXCEPT ![t] = @ \cup {"favorites_get"}]
    /\ UNCHANGED <<job_running, result, resp, fired, clock, exc, cfg, bvars, fvars>>

\* main.py:199, 212, 225
PfStatus(t) ==
    /\ pc[t] = "pf_status"
    /\ app_state' = [app_state EXCEPT
                       !.current_status = "downloading " \o Cats[cat[t]]]
    /\ pc' = [pc EXCEPT ![t] = "pf_batch"]
    /\ UNCHANGED <<job_running, favs, cat, calls, result, resp, fired, clock,
                   exc, cfg, bvars, fvars>>

\* what can become of one item handed to batch_download: its unit ends
\* within the wait of main.py:155, downloaded and removed ("ok"), with
\* download_from_id raising ("dl_err") or with favorites_del raising
\* ("del_err"); the wait runs out and the unit ends afterwards in one of
\* these three ways ("late_..."); or download_from_id never returns
ItemOutcomes ==
    {"ok", "dl_err", "del_err", "late_ok", "late_dl_err", "late_del_err",
     "hang"}

Min(a, b) == IF a < b THEN a ELSE b

Count(oc, S) == Cardinality({i \in DOMAIN oc : oc[i] \in S})

\* main.py:201-208 (and 214-221, 227-234): the batch_download call of the
\* current category and the two += on the counters.  The call raises
\* ValueError for max_workers <= 0 (main.py:138) and for an effective
\* batch size of 0 (range step 0, main.py:143-145).  Otherwise
\* the units that ended within the wait are returned, (True, item) units as
\* succeeded and (False, item) units as failed; a wait that ran out leaves
\* the text of its exception in last_error (main.py:162) and the item in
\* neither list; and the call never returns when a unit never ends (the
\* executor's shutdown joins its workers, main.py:138).
PfBatch(t) ==
    /\ pc[t] = "pf_batch"
    /\ LET c == Cats[cat[t]]
           n == favs[t][c]
       IN IF max_workers <= 0 \/ Min(batch_size, n) = 0
          THEN /\ exc' = [exc EXCEPT ![t] = "ValueError"]
               /\ pc' = [pc EXCEPT ![t] = "pf_except"]
               /\ UNCHANGED <<app_state, cat, calls>>
          ELSE \E oc \in [1..n -> ItemOutcomes] :
                 /\ calls' = [calls EXCEPT ![t] = @ \cup {"download"} \cup
                        (IF Count(oc, {"ok", "del_err", "late_ok",
                                       "late_del_err"}) > 0
                         THEN {"favorites_del"} ELSE {})]
                 /\ exc' = exc
                 /\ IF Count(oc, {"hang"}) > 0
                    THEN /\ app_state' = [app_state EXCEPT
                              !.last_error = "TimeoutError"]
                         /\ pc' = [pc EXCEPT ![t] = "pf_blocked"]
                         /\ cat' = cat
                    ELSE /\ app_state' = [app_state EXCEPT
                              !.downloaded[c] = @ + Count(oc, {"ok"}),
                              !.failed[c] = @ + Count(oc, {"dl_err", "del_err"}),
                              !.last_error =
                                  IF Count(oc, {"late_ok", "late_dl_err",
                                                "late_del_err"}) > 0
                                  THEN "TimeoutError" ELSE @]
                         /\ cat' = [cat EXCEPT
                                      ![t] = NextCat(favs[t], cat[t] + 1)]
                         /\ pc' = [pc EXCEPT
                              ![t] = PcOfCat(NextCat(favs[t], cat[t] + 1))]
    /\ UNCHANGED <<job_running, favs, result, resp, fired, clock, cfg, bvars, fvars>>

\* main.py:237-238
PfIdle(t) ==
    /\ pc[t] = "pf_idle"
    /\ app_state' = [app_state EXCEPT !.current_status = "idle",
                                      !.last_run = clock + 1]
    /\ clock' = clock + 1
    /\ pc' = [pc EXCEPT ![t] = "pf_finally"]
    /\ UNCHANGED <<job_running, favs, cat, calls, result, resp, fired, exc, cfg, bvars, fvars>>

\* the except clause of process_favorites recording the time of the run as
\* main.py:238 does for a run that went through
PfExceptStampsRun(t) ==
    /\ pc[t] = "pf_except"
    /\ app_state' = [app_state EXCEPT !.last_error = exc[t],
                                      !.current_status = "error",
                                      !.last_run = clock + 1]
    /\ clock' = clock + 1
    /\ exc' = [exc EXCEPT ![t] = "None"]
    /\ pc' = [pc EXCEPT ![t] = "pf_finally"]
    /\ UNCHANGED <<job_running, favs, cat, calls, result, resp, fired, cfg,
                   bvars, fvars>>

\* main.py:240-243
PfExcept(t) ==
    /\ pc[t] = "pf_except"
    /\ app_state' = [app_state EXCEPT !.last_error = exc[t],
                                      !.current_status = "error"]
    /\ exc' = [exc EXCEPT ![t] = "None"]
    /\ pc' = [pc EXCEPT ![t] = "pf_finally"]
    /\ UNCHANGED <<job_running, favs, cat, calls, result, resp, fired, clock, cfg, bvars, fvars>>

\* main.py:244-246
PfFinally(t) ==
    /\ pc[t] = "pf_finally"
    /\ job_running' = FALSE
    /\ pc' = [pc EXCEPT ![t] = "job_finally"]
    /\ UNCHANGED <<app_state, favs, cat, calls, result, resp, fired, clock,
                   exc, cfg, bvars, fvars>>

\* job() returning without the clear of main.py:265
JobFinallyKeepsFlag(t) ==
    /\ pc[t] = "job_finally"
    /\ pc' = [pc EXCEPT ![t] = AfterJob(t)]
    /\ result' = [result EXCEPT ![t] = "finished"]
    /\ favs' = [favs EXCEPT ![t] = ZeroCount]
    /\ cat' = [cat EXCEPT ![t] = 1]
    /\ calls' = [calls EXCEPT ![t] = {}]
    /\ UNCHANGED <<job_running, app_state, resp, fired, clock, exc, cfg,
                   bvars, fvars>>

\* main.py:262-265, and the return of job(), with which the locals of the
\* call are gone; process_favorites catches every Exception itself, so the
\* except clause at main.py:260 is never entered
JobFinally(t) ==
    /\ pc[t] = "job_finally"
    /\ job_running' = FALSE
    /\ pc' = [pc EXCEPT ![t] = AfterJob(t)]
    /\ result' = [result EXCEPT ![t] = "finished"]
    /\ favs' = [favs EXCEPT ![t] = ZeroCount]
    /\ cat' = [cat EXCEPT ![t] = 1]
    /\ calls' = [calls EXCEPT ![t] = {}]
    /\ UNCHANGED <<app_state, resp, fired, clock, exc, cfg, bvars, fvars>>

(* ----------------------------- scheduler ------------------------------ *)
\* main.py:278-284, one turn of the loop.  When the interval has elapsed,
\* schedule.run_pending() calls job() in the scheduler thread, and the turn
\* goes on at Tick once job() has returned; otherwise run_pending does
\* nothing and the turn ends with the next_run write.  next_run is the time
\* of the next firing, counted in intervals.
RunPending ==
    /\ pc["sched"] = "run_pending"
    /\ \/ /\ fired < MaxPeriodic
          /\ fired' = fired + 1
          /\ pc' = [pc EXCEPT !["sched"] = "job_check"]
          /\ result' = [result EXCEPT !["sched"] = "none"]
          /\ app_state' = app_state
       \/ /\ app_state' = [app_state EXCEPT !.next_run = fired + 1]
          /\ UNCHANGED <<pc, fired, result>>
    /\ UNCHANGED <<job_running, favs, cat, calls, resp, clock, exc, cfg, bvars, fvars>>

\* main.py:281-284, after a job() call made by run_pending
Tick ==
    /\ pc["sched"] = "tick"
    /\ app_state' = [app_state EXCEPT !.next_run = fired + 1]
    /\ pc' = [pc EXCEPT !["sched"] = "run_pending"]
    /\ UNCHANGED <<job_running, favs, cat, calls, result, resp, fired, clock,
                   exc, cfg, bvars, fvars>>

(* --------------------------- POST /api/trigger ------------------------ *)
\* web_ui.py:41-62; create_app is always given job_function=job
\* (main.py:295), so the 500 answer is never given
trigger_job(k) ==
    /\ resp[k] = 0
    /\ IF job_running
       THEN /\ resp' = [resp EXCEPT ![k] = 409]
            /\ pc' = pc
       ELSE /\ resp' = [resp EXCEPT ![k] = 200]
            /\ pc' = [pc EXCEPT ![k] = "job_check"]
    /\ UNCHANGED <<job_running, app_state, favs, cat, calls, result, fired,
                   clock, exc, cfg, bvars, fvars>>

Next ==
    \/ \E t \in JobThreads :
         \/ JobCheck(t)
         \/ JobSet(t)
         \/ PfInit(t)
         \/ PfAuth(t)
         \/ PfFetch(t, ConcFavs)
         \/ PfStatus(t)
         \/ PfBatch(t)
         \/ PfIdle(t)
         \/ PfExcept(t)
         \/ PfFinally(t)
         \/ JobFinally(t)
    \/ RunPending
    \/ Tick
    \/ \E k \in TriggerThreads : trigger_job(k)

Spec == Init /\ [][Next]_vars

(* =========================== batch_download() ========================== *)
\* a call batch_download(qobuz_dl, user, items, is_album, max_workers,
\* current_batch_size) with any list of at most MaxItems items and any
\* configuration int() accepts (main.py:54-57), made by the startup thread
BatchInit ==
    /\ job_running = TRUE
    /\ app_state = [InitAppState EXCEPT !.current_status = "downloading tracks"]
    /\ pc = [t \in JobThreads |-> IF t = "startup" THEN "pf_batch" ELSE "none"]
    /\ favs = [t \in JobThreads |-> ZeroCount]
    /\ cat = [t \in JobThreads |-> 1]
    /\ calls = [t \in JobThreads |-> {}]
    /\ result = [t \in JobThreads |-> "none"]
    /\ resp = [k \in TriggerThreads |-> 0]
    /\ fired = 0
    /\ clock = 0
    /\ exc = [t \in JobThreads |-> "None"]
    /\ batch_size \in -1..MaxBatchSize
    /\ max_workers \in 0..MaxWorkers
    /\ items \in 0..MaxItems
    /\ b_pc = "enter"
    /\ b_i = 0
    /\ b_j = 0
    /\ unit = [i \in 1..items |-> "new"]
    /\ successful_items = <<>>
    /\ failed_items = <<>>
    /\ timed_out = {}
    /\ chunks = <<>>
    /\ sleeps = <<>>
    /\ events = [i \in 1..items |-> <<>>]
    /\ NoFetch

\* main.py:143
effective_batch_size == Min(batch_size, items)

\* download_item has returned (main.py:125 or 128)
Done == {"ok", "dl_err", "del_err"}

\* a worker thread of the pool is executing the unit
Executing == {"download", "remove", "hung"}

\* main.py:138-145: the executor is constructed (ThreadPoolExecutor raises
\* ValueError for max_workers <= 0), then range(0, len(tasks),
\* effective_batch_size) is evaluated: it raises ValueError for a step of 0,
\* and is empty for a negative step or an empty list
BatchEnter ==
    /\ b_pc = "enter"
    /\ b_pc' = IF max_workers <= 0 \/ effective_batch_size = 0 THEN "raised"
               ELSE IF effective_batch_size < 0 \/ items = 0 THEN "exit"
               ELSE "chunk"
    /\ UNCHANGED <<app_state, cfg, jvars, fvars, items, b_i, b_j, unit,
                   successful_items, failed_items, timed_out, chunks, sleeps,
                   events>>

\* the last item of the batch that starts after item i (main.py:146)
BatchLast(i) == Min(i + effective_batch_size, items)

\* main.py:146-150: the slice and the submission of its tasks
BatchSubmit ==
    /\ b_pc = "chunk"
    /\ unit' = [k \in 1..items |->
                  IF k > b_i /\ k <= BatchLast(b_i) THEN "queued" ELSE unit[k]]
    /\ chunks' = Append(chunks, <<b_i + 1, BatchLast(b_i)>>)
    /\ b_j' = b_i + 1
    /\ b_pc' = "wait"
    /\ UNCHANGED <<app_state, cfg, jvars, fvars, items, b_i,
                   successful_items, failed_items, timed_out, sleeps, events>>

\* the test of main.py:165 with <= for <: a delay after the last batch too
NeedsCooldownOffByOne(i, size, n) == i + size <= n

\* main.py:165
NeedsCooldown(i, size, n) == i + size < n

\* main.py:153-162 for one future, then the end of the inner loop: the
\* result of a finished unit goes to one of the two lists; when the wait
\* runs out first, the except clause writes last_error and nothing else
BatchWait ==
    /\ b_pc = "wait"
    /\ IF unit[b_j] \in Done
       THEN /\ successful_items' = IF unit[b_j] = "ok"
                                   THEN Append(successful_items, b_j)
                                   ELSE successful_items
            /\ failed_items' = IF unit[b_j] = "ok"
                               THEN failed_items
                               ELSE Append(failed_items, b_j)
            /\ UNCHANGED <<app_state, timed_out>>
       ELSE /\ timed_out' = timed_out \cup {b_j}
            /\ app_state' = [app_state EXCEPT !.last_error = "TimeoutError"]
            /\ UNCHANGED <<successful_items, failed_items>>
    /\ IF b_j < BatchLast(b_i)
       THEN /\ b_j' = b_j + 1
            /\ UNCHANGED <<b_pc, b_i>>
       ELSE /\ b_j' = b_j
            /\ IF NeedsCooldown(b_i, effective_batch_size, items)
               THEN /\ b_pc' = "cooldown"
                    /\ b_i' = b_i
               ELSE /\ b_pc' = IF b_i + effective_batch_size < items
                               THEN "chunk" ELSE "exit"
                    /\ b_i' = b_i + effective_batch_size
    /\ UNCHANGED <<cfg, jvars, fvars, items, unit, chunks, sleeps, events>>

\* main.py:166, then the next turn of the loop at main.py:145
BatchCooldown ==
    /\ b_pc = "cooldown"
    /\ sleeps' = Append(sleeps, Len(chunks))
    /\ b_i' = b_i + effective_batch_size
    /\ b_pc' = IF b_i + effective_batch_size < items THEN "chunk" ELSE "exit"
    /\ UNCHANGED <<app_state, cfg, jvars, fvars, items, b_j, unit,
                   successful_items, failed_items, timed_out, chunks, events>>

\* the end of the with block (main.py:138) and main.py:168: the executor's
\* __exit__ is shutdown(wait=True), which joins the worker threads, so it
\* returns once no submitted unit is queued or executing
BatchExit ==
    /\ b_pc = "exit"
    /\ \A k \in 1..items : unit[k] \notin Executing \cup {"queued"}
    /\ b_pc' = "returned"
    /\ UNCHANGED <<app_state, cfg, jvars, fvars, items, b_i, b_j, unit,
                   successful_items, failed_items, timed_out, chunks, sleeps,
                   events>>

\* a worker of the pool takes the oldest queued task; the pool has at most
\* max_workers threads (main.py:138)
WorkerTake(k) ==
    /\ k <= items
    /\ unit[k] = "queued"
    /\ \A m \in 1..(k - 1) : unit[m] # "queued"
    /\ Cardinality({m \in 1..items : unit[m] \in Executing}) < max_workers
    /\ unit' = [unit EXCEPT ![k] = "download"]
    /\ UNCHANGED <<app_state, cfg, jvars, fvars, b_pc, items, b_i, b_j,
                   successful_items, failed_items, timed_out, chunks, sleeps,
                   events>>

\* download_item with favorites_del in a finally clause: the favorite is
\* removed after a download that raised, too
WorkerDownloadThenRemove(k) ==
    /\ k <= items
    /\ unit[k] = "download"
    /\ unit' = [unit EXCEPT ![k] = "remove"]
    /\ \E e \in {"download_ok", "download_raised"} :
         events' = [events EXCEPT ![k] = Append(@, e)]
    /\ UNCHANGED <<app_state, cfg, jvars, fvars, b_pc, items, b_i, b_j,
                   successful_items, failed_items, timed_out, chunks, sleeps>>

\* main.py:123: download_from_id returns, raises (main.py:126-128) or never
\* comes back
WorkerDownload(k) ==
    /\ k <= items
    /\ unit[k] = "download"
    /\ \/ /\ unit' = [unit EXCEPT ![k] = "remove"]
          /\ events' = [events EXCEPT ![k] = Append(@, "download_ok")]
       \/ /\ unit' = [unit EXCEPT ![k] = "dl_err"]
          /\ events' = [events EXCEPT ![k] = Append(@, "download_raised")]
       \/ /\ Cardinality({m \in 1..items : unit[m] = "hung"}) < MaxHung
          /\ unit' = [unit EXCEPT ![k] = "hung"]
          /\ events' = events
    /\ UNCHANGED <<app_state, cfg, jvars, fvars, b_pc, items, b_i, b_j,
                   successful_items, failed_items, timed_out, chunks, sleeps>>

\* main.py:124-125: favorites_del returns, or raises (main.py:126-128)
WorkerRemove(k) ==
    /\ k <= items
    /\ unit[k] = "remove"
    /\ \/ /\ unit' = [unit EXCEPT ![k] = "ok"]
          /\ events' = [events EXCEPT ![k] = Append(@, "favorites_del_ok")]
       \/ /\ unit' = [unit EXCEPT ![k] = "del_err"]
          /\ events' = [events EXCEPT ![k] = Append(@, "favorites_del_raised")]
    /\ UNCHANGED <<app_state, cfg, jvars, fvars, b_pc, items, b_i, b_j,
                   successful_items, failed_items, timed_out, chunks, sleeps>>

\* the steps of the thread that called batch_download
BatchCaller ==
    \/ BatchEnter
    \/ BatchSubmit
    \/ BatchWait
    \/ BatchCooldown
    \/ BatchExit

\* the steps of the unit of item k in the pool
BatchWorker(k) ==
    \/ WorkerTake(k)
    \/ WorkerDownload(k)
    \/ WorkerRemove(k)

BatchNext ==
    \/ BatchEnter
    \/ BatchSubmit
    \/ BatchWait
    \/ BatchCooldown
    \/ BatchExit
    \/ \E k \in 1..MaxItems :
         \/ WorkerTake(k)
         \/ WorkerDownload(k)
         \/ WorkerRemove(k)

BatchSpec == BatchInit /\ [][BatchNext]_vars

\* every thread that can take a step is scheduled in the end
FairBatchSpec ==
    /\ BatchSpec
    /\ WF_vars(BatchCaller)
    /\ \A k \in 1..MaxItems : WF_vars(BatchWorker(k))

(* ========================= get_user_favorites() ======================== *)
\* what favorites_get answers to the request at offset o: a list of n items
\* (the item at position i of that page is <<o, i>>), or an exception
Page(o, n) == [err |-> FALSE, items |-> [i \in 1..n |-> <<o, i>>]]

Failure == [err |-> TRUE, items |-> <<>>]

\* the answers to a request at offset o when the page holds at most room items
Responses(o, room) == {Failure} \cup {Page(o, n) : n \in 0..room}

\* the loop of main.py:106-112 advancing offset by the number of items
\* received instead of by limit
FetchPageByLength(room) ==
    /\ f_pc = "request"
    /\ \E r \in Responses(offset, room) :
         /\ requests' = Append(requests, offset)
         /\ pages' = Append(pages, r)
         /\ IF r.err \/ r.items = <<>>
            THEN /\ f_pc' = "returned"
                 /\ UNCHANGED <<offset, favorites>>
            ELSE /\ favorites' = favorites \o r.items
                 /\ offset' = offset + Len(r.items)
                 /\ f_pc' = f_pc
    /\ UNCHANGED <<app_state, cfg, jvars, bvars, fetch_log, batch_log>>

\* main.py:106-115, one turn of the loop: the favorites_get call at the
\* current offset; an exception (main.py:114-115) and an empty answer
\* (main.py:108-109) end the loop, a non-empty answer is appended and the
\* offset advances by limit (main.py:111-112)
FetchPage(room) ==
    /\ f_pc = "request"
    /\ \E r \in Responses(offset, room) :
         /\ requests' = Append(requests, offset)
         /\ pages' = Append(pages, r)
         /\ IF r.err \/ r.items = <<>>
            THEN /\ f_pc' = "returned"
                 /\ UNCHANGED <<offset, favorites>>
            ELSE /\ favorites' = favorites \o r.items
                 /\ offset' = offset + Limit
                 /\ f_pc' = f_pc
    /\ UNCHANGED <<app_state, cfg, jvars, bvars, fetch_log, batch_log>>

\* a call get_user_favorites(user, fav_type) made by the startup thread in
\* the fetching phase, for any of the three categories
FetchInit ==
    /\ job_running = TRUE
    /\ app_state = [InitAppState EXCEPT !.current_status = "fetching favorites"]
    /\ pc = [t \in JobThreads |-> IF t = "startup" THEN "pf_fetching" ELSE "none"]
    /\ favs = [t \in JobThreads |-> ZeroCount]
    /\ cat \in {[t \in JobThreads |-> IF t = "startup" THEN k ELSE 1] :
                  k \in 1..Len(Cats)}
    /\ calls = [t \in JobThreads |->
                  IF t = "startup" THEN {"authenticate", "favorites_get"} ELSE {}]
    /\ result = [t \in JobThreads |-> "none"]
    /\ resp = [k \in TriggerThreads |-> 0]
    /\ fired = 0
    /\ clock = 0
    /\ exc = [t \in JobThreads |-> "None"]
    /\ batch_size = DefaultBatchSize
    /\ max_workers = DefaultWorkers
    /\ NoBatch
    /\ f_pc = "request"
    /\ offset = 0
    /\ favorites = <<>>
    /\ requests = <<>>
    /\ pages = <<>>
    /\ fetch_log = <<>>
    /\ batch_log = <<>>

\* the remote catalog answers at most MaxPages non-empty pages
FetchRoom == IF Len(pages) < MaxPages THEN MaxPageLen ELSE 0

FetchNext == FetchPage(FetchRoom)

FetchSpec == FetchInit /\ [][FetchNext]_vars

(* ================== one run of job(), call by call ==================== *)
\* main.py:185-187, the call of get_user_favorites for the category cat[t]
\* (main.py:102-104)
GetFavoritesCall(t) ==
    /\ pc[t] = "pf_fetch"
    /\ pc' = [pc EXCEPT ![t] = "pf_fetching"]
    /\ calls' = [calls EXCEPT ![t] = @ \cup {"favorites_get"}]
    /\ f_pc' = "request"
    /\ offset' = 0
    /\ favorites' = <<>>
    /\ requests' = <<>>
    /\ pages' = <<>>
    /\ UNCHANGED <<job_running, app_state, favs, cat, result, resp, fired,
                   clock, exc, cfg, bvars, fetch_log, batch_log>>

\* get_user_favorites without its try block: the exception of favorites_get
\* leaves it and goes to main.py:240
GetFavoritesReturnOrRaise(t) ==
    /\ pc[t] = "pf_fetching"
    /\ f_pc = "returned"
    /\ IF pages[Len(pages)].err
       THEN /\ exc' = [exc EXCEPT ![t] = "FetchError"]
            /\ pc' = [pc EXCEPT ![t] = "pf_except"]
            /\ UNCHANGED <<favs, cat, fetch_log>>
       ELSE /\ favs' = [favs EXCEPT ![t][Cats[cat[t]]] = Len(favorites)]
            /\ fetch_log' = Append(fetch_log, [cat |-> Cats[cat[t]],
                                               err |-> FALSE,
                                               n |-> Len(favorites)])
            /\ exc' = exc
            /\ IF cat[t] < Len(Cats)
               THEN /\ cat' = [cat EXCEPT ![t] = @ + 1]
                    /\ pc' = [pc EXCEPT ![t] = "pf_fetch"]
               ELSE /\ cat' = cat
                    /\ pc' = [pc EXCEPT ![t] = "pf_count"]
    /\ UNCHANGED <<job_running, app_state, calls, result, resp, fired, clock,
                   cfg, bvars, f_pc, offset, favorites, requests, pages,
                   batch_log>>

\* main.py:117 and the assignment at main.py:185-187: the list is returned,
\* cut short or not, and process_favorites goes on with the next category
GetFavoritesReturn(t) ==
    /\ pc[t] = "pf_fetching"
    /\ f_pc = "returned"
    /\ favs' = [favs EXCEPT ![t][Cats[cat[t]]] = Len(favorites)]
    /\ fetch_log' = Append(fetch_log, [cat |-> Cats[cat[t]],
                                       err |-> pages[Len(pages)].err,
                                       n |-> Len(favorites)])
    /\ IF cat[t] < Len(Cats)
       THEN /\ cat' = [cat EXCEPT ![t] = @ + 1]
            /\ pc' = [pc EXCEPT ![t] = "pf_fetch"]
       ELSE /\ cat' = cat
            /\ pc' = [pc EXCEPT ![t] = "pf_count"]
    /\ UNCHANGED <<job_running, app_state, calls, result, resp, fired, clock,
                   exc, cfg, bvars, f_pc, offset, favorites, requests, pages,
                   batch_log>>

\* main.py:189-195: the favorites_count write, then the first `if
\* favorite_<cat>:` whose list is not empty
PfCount(t) ==
    /\ pc[t] = "pf_count"
    /\ app_state' = [app_state EXCEPT !.favorites_count = favs[t]]
    /\ cat' = [cat EXCEPT ![t] = NextCat(favs[t], 1)]
    /\ pc' = [pc EXCEPT ![t] = PcOfCat(NextCat(favs[t], 1))]
    /\ UNCHANGED <<job_running, favs, calls, result, resp, fired, clock, exc,
                   cfg, bvars, fvars>>

\* main.py:201-203 (214-216, 227-229): batch_download is called with the
\* list of the category cat[t] (main.py:130-136)
BatchCall(t) ==
    /\ pc[t] = "pf_batch"
    /\ pc' = [pc EXCEPT ![t] = "pf_in_batch"]
    /\ batch_log' = Append(batch_log, Cats[cat[t]])
    /\ b_pc' = "enter"
    /\ items' = favs[t][Cats[cat[t]]]
    /\ b_i' = 0
    /\ b_j' = 0
    /\ unit' = [i \in 1..favs[t][Cats[cat[t]]] |-> "new"]
    /\ successful_items' = <<>>
    /\ failed_items' = <<>>
    /\ timed_out' = {}
    /\ chunks' = <<>>
    /\ sleeps' = <<>>
    /\ events' = [i \in 1..favs[t][Cats[cat[t]]] |-> <<>>]
    /\ UNCHANGED <<job_running, app_state, favs, cat, calls, result, resp,
                   fired, clock, exc, cfg, f_pc, offset, favorites, requests,
                   pages, fetch_log>>

\* batch_download returning with every failed item making the call raise
BatchReturnRaisesOnFailure(t) ==
    /\ pc[t] = "pf_in_batch"
    /\ b_pc \in {"returned", "raised"}
    /\ IF b_pc = "returned" /\ failed_items = <<>>
       THEN /\ app_state' = [app_state EXCEPT
                 !.downloaded[Cats[cat[t]]] = @ + Len(successful_items),
                 !.failed[Cats[cat[t]]] = @ + Len(failed_items)]
            /\ cat' = [cat EXCEPT ![t] = NextCat(favs[t], cat[t] + 1)]
            /\ pc' = [pc EXCEPT ![t] = PcOfCat(NextCat(favs[t], cat[t] + 1))]
            /\ exc' = exc
       ELSE /\ exc' = [exc EXCEPT ![t] = "ValueError"]
            /\ pc' = [pc EXCEPT ![t] = "pf_except"]
            /\ UNCHANGED <<app_state, cat>>
    /\ UNCHANGED <<job_running, favs, calls, result, resp, fired, clock, cfg,
                   bvars, fvars>>

\* main.py:201-208 (214-221, 227-234): batch_download returns and the two
\* counters of the category grow by the lengths of the returned lists, then
\* the next `if favorite_<cat>:`; or its exception goes to main.py:240
BatchReturn(t) ==
    /\ pc[t] = "pf_in_batch"
    /\ b_pc \in {"returned", "raised"}
    /\ IF b_pc = "returned"
       THEN /\ app_state' = [app_state EXCEPT
                 !.downloaded[Cats[cat[t]]] = @ + Len(successful_items),
                 !.failed[Cats[cat[t]]] = @ + Len(failed_items)]
            /\ cat' = [cat EXCEPT ![t] = NextCat(favs[t], cat[t] + 1)]
            /\ pc' = [pc EXCEPT ![t] = PcOfCat(NextCat(favs[t], cat[t] + 1))]
            /\ exc' = exc
       ELSE /\ exc' = [exc EXCEPT ![t] = "ValueError"]
            /\ pc' = [pc EXCEPT ![t] = "pf_except"]
            /\ UNCHANGED <<app_state, cat>>
    /\ UNCHANGED <<job_running, favs, calls, result, resp, fired, clock, cfg,
                   bvars, fvars>>

\* the favorites the remote catalog still holds for the run under way
RunRoom ==
    MaxFav - Len(favorites)
    - (IF fetch_log = <<>> THEN 0 ELSE fetch_log[1].n)
    - (IF Len(fetch_log) < 2 THEN 0 ELSE fetch_log[2].n)

\* the run started at start-up (main.py:272), while the timer has not fired
\* and nobody posts a trigger
RunNext ==
    \/ JobCheck("startup")
    \/ JobSet("startup")
    \/ PfInit("startup")
    \/ PfAuth("startup")
    \/ GetFavoritesCall("startup")
    \/ FetchPage(RunRoom)
    \/ GetFavoritesReturn("startup")
    \/ PfCount("startup")
    \/ PfStatus("startup")
    \/ BatchCall("startup")
    \/ BatchEnter
    \/ BatchSubmit
    \/ BatchWait
    \/ BatchCooldown
    \/ BatchExit
    \/ \E k \in 1..MaxItems :
         \/ WorkerTake(k)
         \/ WorkerDownload(k)
         \/ WorkerRemove(k)
    \/ BatchReturn("startup")
    \/ PfIdle("startup")
    \/ PfExcept("startup")
    \/ PfFinally("startup")
    \/ JobFinally("startup")

\* the configurations of a run: a batch size of 0, of 1 and the default
RunInit ==
    /\ job_running = FALSE
    /\ app_state = InitAppState
    /\ pc = [t \in JobThreads |->
               IF t = "startup" THEN "job_check"
               ELSE IF t = "sched" THEN "run_pending" ELSE "none"]
    /\ favs = [t \in JobThreads |-> ZeroCount]
    /\ cat = [t \in JobThreads |-> 1]
    /\ calls = [t \in JobThreads |-> {}]
    /\ result = [t \in JobThreads |-> "none"]
    /\ resp = [k \in TriggerThreads |-> 0]
    /\ fired = 0
    /\ clock = 0
    /\ exc = [t \in JobThreads |-> "None"]
    /\ batch_size \in {0, 1, DefaultBatchSize}
    /\ max_workers = DefaultWorkers
    /\ NoBatch
    /\ NoFetch

RunSpec == RunInit /\ [][RunNext]_vars

(* ====================== claims on the job controller =================== *)
\* thread t is executing the body of process_favorites (main.py:171-246)
InBody(t) ==
    pc[t] \in {"pf_init", "pf_auth", "pf_fetch", "pf_fetching", "pf_count",
               "pf_status", "pf_batch", "pf_in_batch", "pf_blocked", "pf_idle",
               "pf_except", "pf_finally"}

\* the run of thread t has made its first status write (main.py:172) and not
\* yet its last (main.py:237 or 243)
Active(t) ==
    pc[t] \in {"pf_auth", "pf_fetch", "pf_fetching", "pf_count", "pf_status",
               "pf_batch", "pf_in_batch", "pf_blocked", "pf_idle", "pf_except"}

\* C1: at most one thread at a time executes the body of
\* process_favorites(), whatever the interleaving of the startup thread, the
\* scheduler's periodic job() and the threads spawned by POST /api/trigger.
C1_MutualExclusion ==
    \A t1, t2 \in JobThreads : t1 # t2 => ~(InBody(t1) /\ InBody(t2))

\* C2: whenever a job() call that set job_running returns (it leaves
\* main.py:265), job_running is clear at that moment, on every exit path.
C2_GuaranteedRelease ==
    [][\A t \in JobThreads :
         (pc[t] = "job_finally" /\ pc'[t] # "job_finally") => ~job_running']_vars

\* a job() call has returned after a run that ended in phase `error`, and
\* the flag is clear
C2_Witness ==
    \E t \in JobThreads :
        /\ result[t] = "finished"
        /\ pc[t] = AfterJob(t)
        /\ app_state.current_status = "error"
        /\ ~job_running

\* C3: job_running is set in every state in which some run is between its
\* first and its last status write; no clear made by one job() call takes
\* effect while another call's run is active.
C3_LockCoversRun ==
    \A t \in JobThreads : Active(t) => job_running

\* thread t takes the step of main.py:250 while job_running is set
BusyJobStep(t) == pc[t] = "job_check" /\ job_running /\ pc'[t] # "job_check"

\* trigger request k is answered while job_running is set
BusyTriggerStep(k) == resp[k] = 0 /\ job_running /\ resp'[k] # 0

\* C4: a job() call or a POST /api/trigger made while job_running is set
\* changes no field of app_state, invokes no collaborator, leaves
\* job_running as it is; job() just returns, and the trigger answers 409
\* and starts no thread.
C4_BusyIsNoOp ==
    [][/\ \A t \in JobThreads :
            BusyJobStep(t) =>
                /\ app_state' = app_state
                /\ job_running' = job_running
                /\ calls' = calls
                /\ pc' = [pc EXCEPT ![t] = AfterJob(t)]
       /\ \A k \in TriggerThreads :
            BusyTriggerStep(k) =>
                /\ resp'[k] = 409
                /\ pc' = pc
                /\ app_state' = app_state
                /\ job_running' = job_running
                /\ calls' = calls]_vars

\* the scheduler's job() call was skipped and the trigger was answered 409,
\* both while another thread's run held the flag
C4_Witness ==
    /\ result["sched"] = "skipped"
    /\ \E k \in TriggerThreads : resp[k] = 409
    /\ \E t \in JobThreads : Active(t)

\* C5: a POST /api/trigger answered 200 starts a run: the job() call of the
\* thread it spawned enters process_favorites() and does not return as an
\* `already running` no-op.
C5_TriggerStartsRun ==
    \A k \in TriggerThreads :
        (resp[k] = 200 /\ pc[k] = "done") => result[k] = "finished"

(* ======================= claims on batch_download ====================== *)
\* the items of a list, as a set
Range(q) == {q[k] : k \in DOMAIN q}

\* batch_download has returned (main.py:168)
Returned == b_pc = "returned"

\* a chunk size and a worker count of at least 1, as the defaults are
SaneConfig == batch_size >= 1 /\ max_workers >= 1

\* C6: the lists batch_download returns are disjoint and together hold
\* every input item exactly once: len(succeeded) + len(failed) ==
\* len(items), for every list and every outcome of the units (stated here
\* for a chunk size and a worker count of at least 1).
C6_Partition ==
    (SaneConfig /\ Returned) =>
        /\ Len(successful_items) + Len(failed_items) = items
        /\ Range(successful_items) \cap Range(failed_items) = {}
        /\ Range(successful_items) \cup Range(failed_items) = 1..items

\* C7: an item whose future.result(timeout=600) raised is in the failed
\* list batch_download returns, and not in the succeeded list.
C7_TimeoutIsFailure ==
    Returned =>
        \A k \in timed_out :
            k \in Range(failed_items) /\ k \notin Range(successful_items)

\* C8: no exception leaves batch_download, whatever the list (the empty
\* one included) and whatever chunk size and worker count the program
\* accepts (stated here for a chunk size and a worker count of at least 1).
C8_NeverRaises == SaneConfig => b_pc # "raised"

\* the chunk size the claim names: min(c, n)
ChunkSize == Min(batch_size, items)

\* ceil(n / min(c, n))
NumChunks == (items + ChunkSize - 1) \div ChunkSize

\* the k-th consecutive slice of the list, by its first and last item
ExpectedChunk(k) == <<(k - 1) * ChunkSize + 1, Min(k * ChunkSize, items)>>

\* C9: for n >= 1 items and chunk size c >= 1 the chunks taken are the
\* consecutive slices of size min(c, n) of the list, in order, the last one
\* possibly shorter, ceil(n / min(c, n)) of them once the call returns; the
\* cool-down delay is executed exactly once between two consecutive chunks
\* and never after the last one.
C9_Chunking ==
    (items >= 1 /\ batch_size >= 1) =>
        /\ Len(chunks) <= NumChunks
        /\ \A k \in DOMAIN chunks : chunks[k] = ExpectedChunk(k)
        /\ \A k \in DOMAIN sleeps : sleeps[k] = k /\ k < NumChunks
        /\ b_pc \in {"wait", "cooldown"} => Len(sleeps) = Len(chunks) - 1
        /\ b_pc = "chunk" => Len(sleeps) = Len(chunks)
        /\ b_pc \in {"exit", "returned"} =>
               Len(chunks) = NumChunks /\ Len(sleeps) = NumChunks - 1

\* three items in chunks of two: a full chunk, one delay, a shorter last
\* chunk, and the call has returned
C9_Witness ==
    /\ Returned
    /\ items = 3
    /\ batch_size = 2
    /\ chunks = <<(<<1, 2>>), (<<3, 3>>)>>
    /\ sleeps = <<1>>

\* C10: when the download of one unit never returns, batch_download still
\* returns in the end (all other collaborator calls returning).
C10_StuckDoesNotHalt ==
    (\E k \in 1..MaxItems : k <= items /\ unit[k] = "hung") ~> Returned

(* ------------------- C11: removal only after download ----------------- *)
DelEvents == {"favorites_del_ok", "favorites_del_raised"}

\* C11: favorites_del is called for an item only after download_from_id
\* returned without raising for that item in the same unit; an item whose
\* download raised is never removed; and an item is in the succeeded list
\* only if both calls returned without raising
C11_RemovalAfterDownload ==
    \A k \in 1..items :
      /\ \A n \in 1..Len(events[k]) :
            events[k][n] \in DelEvents =>
              n > 1 /\ events[k][n - 1] = "download_ok"
      /\ unit[k] = "remove" => events[k] = <<"download_ok">>
      /\ "download_raised" \in Range(events[k]) =>
            Range(events[k]) \cap DelEvents = {}
      /\ k \in Range(successful_items) =>
            events[k] = <<"download_ok", "favorites_del_ok">>

\* the call returned with one item whose download raised and one item
\* downloaded, removed and returned as succeeded
C11_Witness ==
    /\ Returned
    /\ \E k \in 1..items : events[k] = <<"download_raised">>
    /\ \E k \in 1..items :
         /\ k \in Range(successful_items)
         /\ events[k] = <<"download_ok", "favorites_del_ok">>

(* --------------------- C12: phase order within a run ------------------ *)
Phase(k) == "downloading " \o Cats[k]

\* the categories after position k whose list, of the lengths f, is not
\* empty
LaterNonEmpty(f, k) == {j \in (k + 1)..Len(Cats) : f[Cats[j]] > 0}

\* the phase that may follow the fetching phase (k = 0) or the downloading
\* phase of category k, other than error
FollowsCat(f, k, s2) ==
    IF LaterNonEmpty(f, k) = {} THEN s2 = "idle"
    ELSE \E j \in LaterNonEmpty(f, k) :
           /\ s2 = Phase(j)
           /\ \A i \in LaterNonEmpty(f, k) : j <= i

PhaseStep(s, s2, f) ==
    \/ s = "idle" /\ s2 = "initializing"
    \/ s = "initializing" /\ s2 = "fetching favorites"
    \/ s = "fetching favorites" /\ FollowsCat(f, 0, s2)
    \/ \E k \in 1..Len(Cats) : s = Phase(k) /\ FollowsCat(f, k, s2)
    \/ s \notin {"idle", "error"} /\ s2 = "error"

\* C12: the phases one run writes are initializing, fetching favorites,
\* the downloading phases of the non-empty categories in the order tracks,
\* albums, artists, then idle, error being reachable from any of them; an
\* empty category gets no phase and no batch_download call; and the call
\* for a category is made in its phase, after the call for the category
\* before it has returned
C12_PhaseOrder ==
    [][/\ app_state'.current_status # app_state.current_status =>
            PhaseStep(app_state.current_status, app_state'.current_status,
                      app_state.favorites_count)
       /\ batch_log' # batch_log =>
            /\ b_pc \in {"none", "returned"}
            /\ \E k \in 1..Len(Cats) :
                 /\ batch_log' = Append(batch_log, Cats[k])
                 /\ app_state.current_status = Phase(k)
                 /\ app_state.favorites_count[Cats[k]] > 0
                 /\ items' = app_state.favorites_count[Cats[k]]
                 /\ \A n \in 1..Len(batch_log) :
                      \E j \in 1..(k - 1) : batch_log[n] = Cats[j]
      ]_vars

\* a run with tracks and artists but no album ended idle after the batch
\* calls for tracks and for artists
C12_Witness ==
    /\ pc["startup"] = "done"
    /\ app_state.current_status = "idle"
    /\ app_state.favorites_count["albums"] = 0
    /\ batch_log = <<"tracks", "artists">>

(* ---------------------- C13: run-level fault handling ----------------- *)
\* C13: when authentication (or any step outside the per-item handling)
\* raises, the rest of the run is given up: no favorite is fetched, no item
\* downloaded and no favorite removed after the fault; the phase becomes
\* error and last_error the text of the exception, last_run is left as it
\* was; and job() returns normally to its caller with job_running clear
C13_RunFaultAborts ==
    [][\A t \in JobThreads :
         /\ pc[t] = "pf_auth" /\ pc'[t] = "pf_except" =>
              /\ exc'[t] = "AuthError"
              /\ calls'[t] = {"authenticate"}
              /\ app_state' = app_state
         /\ pc[t] = "pf_except" /\ pc'[t] # pc[t] =>
              /\ pc'[t] = "pf_finally"
              /\ app_state' = [app_state EXCEPT !.current_status = "error",
                                                !.last_error = exc[t]]
              /\ exc[t] \in {"AuthError", "ValueError"}
              /\ calls'[t] = calls[t]
         /\ pc[t] = "pf_finally" /\ pc'[t] # pc[t] =>
              /\ pc'[t] = "job_finally"
              /\ app_state' = app_state
              /\ calls'[t] = calls[t]
         /\ pc[t] = "job_finally" /\ pc'[t] # pc[t] =>
              /\ pc'[t] = AfterJob(t)
              /\ result'[t] = "finished"
              /\ app_state' = app_state
              /\ ~job_running'
      ]_vars

\* a job() call whose authentication raised has returned: the phase is
\* error, last_error the text of the exception, no run has been recorded
\* and job_running is clear
C13_Witness ==
    \E t \in JobThreads :
      /\ pc[t] = AfterJob(t)
      /\ result[t] = "finished"
      /\ app_state.current_status = "error"
      /\ app_state.last_error = "AuthError"
      /\ app_state.last_run = 0
      /\ ~job_running

(* -------------------- C14: item-level failure isolation ---------------- *)
Failed == {"dl_err", "del_err"}

\* C14: when the download or the removal of any items raises, every other
\* item of the batch is still submitted and processed, the later categories
\* are still processed, the run ends idle with last_run written and never
\* error, and the failures only grow the failed counter of their category
C14_ItemFailureIsolation ==
    /\ SaneConfig /\ pc["startup"] = "pf_except" => exc["startup"] = "AuthError"
    /\ b_pc = "returned" =>
         /\ \A k \in 1..items : unit[k] \in Done /\ events[k] # <<>>
         /\ \A k \in Range(failed_items) : unit[k] \in Failed
         /\ \A k \in 1..items :
              unit[k] \in Failed => k \notin Range(successful_items)
    /\ b_pc = "returned" /\ pc["startup"] # "pf_in_batch" =>
         /\ app_state.downloaded[batch_log[Len(batch_log)]]
              = Len(successful_items)
         /\ app_state.failed[batch_log[Len(batch_log)]] = Len(failed_items)
    /\ SaneConfig /\ pc["startup"] = "job_finally" /\ Len(fetch_log) = Len(Cats) =>
         /\ app_state.current_status = "idle"
         /\ app_state.last_run > 0
         /\ \A c \in CatSet :
              app_state.favorites_count[c] > 0 <=> c \in Range(batch_log)

\* a run ended idle with last_run written after the only track failed and
\* the only artist, processed after it, was downloaded
C14_Witness ==
    /\ pc["startup"] = "done"
    /\ app_state.current_status = "idle"
    /\ app_state.last_run > 0
    /\ app_state.failed["tracks"] = 1
    /\ app_state.downloaded["tracks"] = 0
    /\ app_state.downloaded["artists"] = 1
    /\ app_state.last_error = "None"

(* --------------- C15: a fetch failure truncates the list --------------- *)
\* the items of the pages q, in order
RECURSIVE Flatten(_)
Flatten(q) == IF q = <<>> THEN <<>> ELSE Head(q).items \o Flatten(Tail(q))

\* the thread is past the three get_user_favorites calls of its run
PastFetch(t) ==
    pc[t] \in {"pf_count", "pf_status", "pf_batch", "pf_in_batch", "pf_idle"}

\* C15: when favorites_get raises in get_user_favorites, the call returns
\* the items accumulated before the error without raising; the remaining
\* categories are still fetched; the accumulated items are still handed to
\* batch_download; and the run does not become error because of it
C15_FetchFailureTruncates ==
    /\ f_pc = "returned" /\ pages[Len(pages)].err =>
         favorites = Flatten(SubSeq(pages, 1, Len(pages) - 1))
    /\ \A n \in 1..Len(fetch_log) :
         /\ fetch_log[n].cat = Cats[n]
         /\ pc["startup"] # "done" =>
              favs["startup"][Cats[n]] = fetch_log[n].n
    /\ PastFetch("startup") => Len(fetch_log) = Len(Cats)
    /\ pc["startup"] = "pf_in_batch" =>
         \E n \in 1..Len(fetch_log) :
           /\ fetch_log[n].cat = batch_log[Len(batch_log)]
           /\ fetch_log[n].n = items
    /\ pc["startup"] = "pf_except" =>
         \/ exc["startup"] = "AuthError" /\ fetch_log = <<>>
         \/ exc["startup"] = "ValueError" /\ b_pc = "raised" /\ ~SaneConfig
    /\ SaneConfig /\ pc["startup"] = "job_finally" /\ fetch_log # <<>> =>
         /\ app_state.current_status = "idle"
         /\ \A n \in 1..Len(fetch_log) :
              fetch_log[n].n > 0 => fetch_log[n].cat \in Range(batch_log)

\* the fetch of the tracks failed after one item; albums and artists were
\* fetched after it, and the run ended idle with that track and the one
\* artist downloaded
C15_Witness ==
    /\ pc["startup"] = "done"
    /\ app_state.current_status = "idle"
    /\ Len(fetch_log) = Len(Cats)
    /\ fetch_log[1] = [cat |-> "tracks", err |-> TRUE, n |-> 1]
    /\ fetch_log[3] = [cat |-> "artists", err |-> FALSE, n |-> 1]
    /\ app_state.downloaded["tracks"] = 1
    /\ app_state.downloaded["artists"] = 1

(* ------------------------ C16: per-run accounting ---------------------- *)
\* C16: for every run that ends idle, the growth of downloaded + failed of
\* each category over the run equals the favorites_count the run recorded
\* for it (the counters are 0 when the first run starts)
C16_RunAccounting ==
    pc["startup"] = "job_finally" /\ app_state.current_status = "idle" =>
      \A c \in CatSet :
        app_state.downloaded[c] + app_state.failed[c]
          = app_state.favorites_count[c]

(* ------------------ C17: the scheduler loop and the runs --------------- *)
\* C17: while any run is active, started at start-up, by the timer or by a
\* trigger, the scheduler loop goes on ticking: its thread is never held
\* inside a run until that run finishes
C17_SchedulerNeverBlocks ==
    (\E t \in JobThreads : Active(t)) => ~InBody("sched")

(* -------------------- C18: the result of fetchAll ---------------------- *)
\* the answer ends the loop: an exception or an empty page
Ends(r) == r.err \/ r.items = <<>>

\* C18: get_user_favorites asks for the pages at offsets 0, 50, 100, ...
\* and returns, in order, the items of the non-empty pages that came before
\* the first empty page or the first error; no request is made after that
C18_FetchAll ==
    /\ Len(pages) = Len(requests)
    /\ \A n \in 1..Len(requests) : requests[n] = Limit * (n - 1)
    /\ \A n \in 1..(Len(pages) - 1) : ~Ends(pages[n])
    /\ f_pc = "returned" <=> pages # <<>> /\ Ends(pages[Len(pages)])
    /\ f_pc = "returned" =>
         favorites = Flatten(SubSeq(pages, 1, Len(pages) - 1))
    /\ f_pc = "request" => favorites = Flatten(pages)

\* the call returned the three items of two pages, in order, after the
\* empty answer to its third request
C18_Witness ==
    /\ f_pc = "returned"
    /\ requests = <<0, Limit, Limit + Limit>>
    /\ pages[3] = Page(Limit + Limit, 0)
    /\ favorites = <<<<0, 1>>, <<0, 2>>, <<Limit, 1>>>>

(* --------------------- C19: chunks are sequential ---------------------- *)
\* item k has been submitted to the executor
Submitted(k) == unit[k] # "new"

\* the number of the chunk item k was submitted with
ChunkOf(k) ==
    CHOOSE n \in 1..Len(chunks) : chunks[n][1] <= k /\ k <= chunks[n][2]

\* C19: no unit of a later chunk is submitted or executing while a unit of
\* an earlier chunk is still executing its download or its removal, a unit
\* given up on by the timeout of the wait included
C19_ChunksSequential ==
    \A k, m \in 1..items :
      Submitted(k) /\ Submitted(m) /\ ChunkOf(k) < ChunkOf(m) =>
        unit[k] \notin Executing

(* -------------------- C20: removals are accounted ---------------------- *)
\* C20: when batch_download returns, every item whose favorite was removed
\* (favorites_del returned without raising) is in the succeeded list
C20_RemovalAccounted ==
    Returned =>
      \A k \in 1..items :
        "favorites_del_ok" \in Range(events[k]) =>
          k \in Range(successful_items)
====
